---- MODULE Spec2Model ----
(***************************************************************************)
(* Model of the trade simulator (src/trading/simulator.py) and of the      *)
(* session registry with its per-session polling workers                   *)
(* (src/apps/simulation_app/simulation_manager.py).                         *)
(*                                                                         *)
(* Money and asset amounts are exact rationals <<num, den>> (den > 0, in   *)
(* lowest terms); the program computes them in binary floating point.      *)
(* Optional values (Python None) are sequences: <<>> is None, <<v>> is v.   *)
(* A trade record keeps the fields the simulator or a reader uses later;   *)
(* the chart series and the persisted files are not part of the state.     *)
(***************************************************************************)
EXTENDS Integers, Sequences, FiniteSets, TLC

(* ------------------------------ bounds --------------------------------- *)
MaxSims == 2        \* simulator objects (and worker threads) ever created
MaxLog == 2         \* trade records per simulator
MaxClock == 1       \* wall-clock seconds that pass

(* ------------------------- program constants --------------------------- *)
DefaultMaeStopThreshold == 12

(* --------------------------- input domains ----------------------------- *)
Intervals == {"5s", "1m"}
StartBalances == {<<0, 1>>, <<100, 1>>}
FeePcts == {<<1, 10>>}
EntryThresholds == {1}
ExitThresholds == {1}
StopLossPcts == {<<1, 2>>}
MaeEnabled == BOOLEAN
Prices == {1, 2}
Timestamps == {1}
PredChanges == {-1, 0, 1}
MaeValues == {<<>>, <<12>>, <<13>>}

None == <<>>
Some(v) == <<v>>
IsNone(o) == o = <<>>
Val(o) == o[1]

(* --------------------------- exact rationals --------------------------- *)
Abs(n) == IF n < 0 THEN -n ELSE n

RECURSIVE Gcd(_, _)
Gcd(a, b) == IF b = 0 THEN a ELSE Gcd(b, a % b)

Norm(n, d) ==
    LET g == Gcd(Abs(n), Abs(d))
        s == IF d < 0 THEN -1 ELSE 1
    IN  <<(s * n) \div g, (s * d) \div g>>

R(n) == <<n, 1>>
RAdd(a, b) == Norm(a[1] * b[2] + b[1] * a[2], a[2] * b[2])
RSub(a, b) == Norm(a[1] * b[2] - b[1] * a[2], a[2] * b[2])
RMul(a, b) == Norm(a[1] * b[1], a[2] * b[2])
RDiv(a, b) == Norm(a[1] * b[2], a[2] * b[1])
RLe(a, b) == a[1] * b[2] <= b[1] * a[2]
RLt(a, b) == a[1] * b[2] < b[1] * a[2]
RZero == <<0, 1>>
RPos(a) == a[1] > 0

(* ------------------------------- ticks --------------------------------- *)
\* prediction: None, or the predicted_change_pct of the session's interval
Ticks ==
    [timestamp : Timestamps, actual_price : Prices,
     prediction : {None} \cup {Some(p) : p \in PredChanges},
     mae_10min : MaeValues]

(* ---------------------------- TradeSimulator --------------------------- *)
NewSimulator(start_balance, entry_threshold, exit_threshold, fee_pct, interval, session_id, mae_stop_enabled, mae_stop_threshold, stop_loss_pct) ==
    [balance |-> start_balance, btc |-> RZero, buy_price |-> 0,
     fee_pct |-> fee_pct, entry_threshold |-> entry_threshold,
     exit_threshold |-> exit_threshold, interval |-> interval,
     session_id |-> session_id, mae_stop_enabled |-> mae_stop_enabled,
     mae_stop_threshold |-> mae_stop_threshold, stop_loss_pct |-> stop_loss_pct,
     stop_loss_price |-> None, auto_paused |-> FALSE, last_mae |-> None,
     trade_log |-> <<>>, start_balance |-> start_balance,
     correct_predictions |-> 0, total_predictions |-> 0,
     last_tick |-> None, pending_log |-> 0]

Sign(n) == IF n > 0 THEN 1 ELSE IF n < 0 THEN -1 ELSE 0

\* variant: a falling price is not told from an unchanged one
ActualSign_noFall(last_tick, current_price) ==
    IF current_price > last_tick.actual_price THEN 1 ELSE 0

\* the sign of ((current_price - last_actual_price) / last_actual_price) * 100
ActualSign(last_tick, current_price) ==
    Sign((current_price - last_tick.actual_price) * last_tick.actual_price)

IsCorrect(last_tick, current_price) ==
    LET predicted_sign == Sign(Val(last_tick.prediction))
    IN  predicted_sign = ActualSign(last_tick, current_price) /\ predicted_sign # 0

\* variant: the correct counter is no longer nested under the non-zero test
CheckPredictionAccuracy_unnested(s, last_tick, current_price) ==
    LET predicted_sign == Sign(Val(last_tick.prediction))
    IN  [s EXCEPT !.total_predictions = IF predicted_sign # 0 THEN @ + 1 ELSE @,
                  !.correct_predictions =
                      IF predicted_sign = ActualSign(last_tick, current_price)
                      THEN @ + 1 ELSE @]

\* the simulator after check_prediction_accuracy (its result is IsCorrect)
CheckPredictionAccuracy(s, last_tick, current_price) ==
    IF Sign(Val(last_tick.prediction)) # 0
    THEN [s EXCEPT !.total_predictions = @ + 1,
                   !.correct_predictions =
                       IF IsCorrect(last_tick, current_price) THEN @ + 1 ELSE @]
    ELSE s

\* variant: arms the stop-loss without looking at the position
SetStopLoss_unguarded(s) ==
    [s EXCEPT !.stop_loss_price =
        Some(RMul(R(s.buy_price), RSub(R(1), s.stop_loss_pct)))]

SetStopLoss(s) ==
    IF RPos(s.btc)
    THEN [s EXCEPT !.stop_loss_price =
             Some(RMul(R(s.buy_price), RSub(R(1), s.stop_loss_pct)))]
    ELSE s

\* variant: the entry fee is taken out of the amount bought
Buy_feeFromAmount(s, timestamp, price, predicted_change_pct) ==
    LET fee == RMul(s.balance, s.fee_pct)
        amount == RDiv(RSub(s.balance, fee), R(price))
        s1 == [s EXCEPT !.btc = amount, !.buy_price = price]
        scored == ~IsNone(s.last_tick)
        s2 == IF scored THEN CheckPredictionAccuracy(s1, Val(s.last_tick), price) ELSE s1
        rec == [timestamp |-> timestamp, type |-> "BUY", price |-> price,
                amount |-> amount, fee |-> fee, balance |-> s.balance,
                profit |-> None, predicted_change_pct |-> Some(predicted_change_pct),
                prediction_accuracy |->
                    IF scored THEN Some(IsCorrect(Val(s.last_tick), price)) ELSE None]
    IN  [s2 EXCEPT !.trade_log = Append(@, rec), !.pending_log = Len(s.trade_log) + 1]

Buy(s, timestamp, price, predicted_change_pct) ==
    LET amount == RDiv(s.balance, R(price))
        fee == RMul(s.balance, s.fee_pct)
        s1 == [s EXCEPT !.btc = amount, !.buy_price = price]
        scored == ~IsNone(s.last_tick)
        s2 == IF scored THEN CheckPredictionAccuracy(s1, Val(s.last_tick), price) ELSE s1
        rec == [timestamp |-> timestamp, type |-> "BUY", price |-> price,
                amount |-> amount, fee |-> fee, balance |-> s.balance,
                profit |-> None, predicted_change_pct |-> Some(predicted_change_pct),
                prediction_accuracy |->
                    IF scored THEN Some(IsCorrect(Val(s.last_tick), price)) ELSE None]
    IN  [s2 EXCEPT !.trade_log = Append(@, rec), !.pending_log = Len(s.trade_log) + 1]

\* index of the first BUY record carrying the pending record's timestamp
\* (0 when there is none)
FirstBuyAt(log, ts) ==
    LET hits == {i \in 1..Len(log) : log[i].timestamp = ts /\ log[i].type = "BUY"}
    IN  IF hits = {} THEN 0 ELSE CHOOSE i \in hits : \A j \in hits : i <= j

\* sell(): the test of its line 205
SellFilling(s) ==
    /\ s.pending_log # 0
    /\ ~IsNone(s.last_tick)
    /\ s.trade_log[s.pending_log].type = "BUY"

\* sell() with btc > 0 and SellFilling, up to and including its update_session
\* call (line 212)
SellUntilUpdate(s, price) ==
    LET proceeds == RMul(s.btc, R(price))
        fee == RMul(proceeds, s.fee_pct)
        profit == RSub(RSub(proceeds, RMul(s.btc, R(s.buy_price))), fee)
        s1 == [s EXCEPT !.balance = RSub(proceeds, fee)]
        buy_accuracy == IsCorrect(Val(s.last_tick), price)
        i == FirstBuyAt(s.trade_log, s.trade_log[s.pending_log].timestamp)
        c == CheckPredictionAccuracy(s1, Val(s.last_tick), price)
    IN  IF i # 0
        THEN [c EXCEPT !.trade_log[i].prediction_accuracy = Some(buy_accuracy),
                       !.trade_log[i].profit = Some(profit)]
        ELSE c

\* sell() with btc > 0, up to and including its save_session call (line 244).
\* predicted: None for a stop-loss exit, else the tick's predicted_change_pct
SellUntilSave(s, timestamp, price, predicted) ==
    LET proceeds == RMul(s.btc, R(price))
        fee == RMul(proceeds, s.fee_pct)
        profit == RSub(RSub(proceeds, RMul(s.btc, R(s.buy_price))), fee)
        s1 == [s EXCEPT !.balance = RSub(proceeds, fee)]
        s2 == IF SellFilling(s) THEN SellUntilUpdate(s, price) ELSE s1
        scored == ~IsNone(s.last_tick) /\ ~IsNone(predicted)
        s3 == IF scored THEN CheckPredictionAccuracy(s2, Val(s.last_tick), price) ELSE s2
        rec == [timestamp |-> timestamp, type |-> "SELL", price |-> price,
                amount |-> s.btc, fee |-> fee, balance |-> s1.balance,
                profit |-> Some(profit), predicted_change_pct |-> predicted,
                prediction_accuracy |->
                    IF scored THEN Some(IsCorrect(Val(s.last_tick), price)) ELSE None]
    IN  [s3 EXCEPT !.trade_log = Append(@, rec), !.pending_log = Len(s.trade_log) + 1]

\* variant: the position is not reset after the sale
Sell_keepsPosition(s, timestamp, price, predicted) ==
    IF ~RPos(s.btc) THEN s
    ELSE [SellUntilSave(s, timestamp, price, predicted) EXCEPT !.pending_log = 0]

Sell(s, timestamp, price, predicted) ==
    IF ~RPos(s.btc) THEN s
    ELSE [SellUntilSave(s, timestamp, price, predicted) EXCEPT
             !.btc = RZero, !.buy_price = 0, !.pending_log = 0]

\* variant: strict comparison with the stop-loss price
StopLossHit_strict(s, tick) ==
    /\ ~IsNone(s.stop_loss_price)
    /\ RPos(s.btc)
    /\ RLt(R(tick.actual_price), Val(s.stop_loss_price))

StopLossHit(s, tick) ==
    /\ ~IsNone(s.stop_loss_price)
    /\ RPos(s.btc)
    /\ RLe(R(tick.actual_price), Val(s.stop_loss_price))

MonitorStopLoss(s, tick) ==
    IF StopLossHit(s, tick)
    THEN [Sell(s, tick.timestamp, tick.actual_price, None) EXCEPT !.stop_loss_price = None]
    ELSE s

MaeBreach(s) ==
    /\ s.mae_stop_enabled
    /\ ~IsNone(s.last_mae)
    /\ Val(s.last_mae) > s.mae_stop_threshold

\* variant: strict comparison with the entry threshold
EntrySignal_strict(s, tick) == Val(tick.prediction) > s.entry_threshold

EntrySignal(s, tick) == Val(tick.prediction) >= s.entry_threshold

ExitSignal(s, tick) == Val(tick.prediction) <= -s.exit_threshold

\* the fields of a stored last_tick that the simulator reads later
LastTick(tick) == [actual_price |-> tick.actual_price, prediction |-> tick.prediction]

\* variant: signals are evaluated although auto_paused is set
ProcessTick_noAutoPause(s, tick) ==
    LET s1 == MonitorStopLoss([s EXCEPT !.last_mae = tick.mae_10min], tick)
    IN  IF ~s1.auto_paused /\ MaeBreach(s1) THEN SetStopLoss([s1 EXCEPT !.auto_paused = TRUE])
        ELSE IF IsNone(tick.prediction) THEN s1
        ELSE IF s1.btc = RZero /\ EntrySignal(s1, tick)
             THEN Buy(s1, tick.timestamp, tick.actual_price, Val(tick.prediction))
        ELSE IF RPos(s1.btc) /\ ExitSignal(s1, tick)
             THEN Sell(s1, tick.timestamp, tick.actual_price, tick.prediction)
        ELSE [s1 EXCEPT !.last_tick = Some(LastTick(tick))]

\* variant: a tick without a prediction is stored as last_tick
ProcessTick_storesUnpredicted(s, tick) ==
    LET s1 == MonitorStopLoss([s EXCEPT !.last_mae = tick.mae_10min], tick)
    IN  IF s1.auto_paused THEN s1
        ELSE IF MaeBreach(s1) THEN SetStopLoss([s1 EXCEPT !.auto_paused = TRUE])
        ELSE IF IsNone(tick.prediction) THEN [s1 EXCEPT !.last_tick = Some(LastTick(tick))]
        ELSE IF s1.btc = RZero /\ EntrySignal(s1, tick)
             THEN Buy(s1, tick.timestamp, tick.actual_price, Val(tick.prediction))
        ELSE IF RPos(s1.btc) /\ ExitSignal(s1, tick)
             THEN Sell(s1, tick.timestamp, tick.actual_price, tick.prediction)
        ELSE [s1 EXCEPT !.last_tick = Some(LastTick(tick))]

ProcessTick(s, tick) ==
    LET s1 == MonitorStopLoss([s EXCEPT !.last_mae = tick.mae_10min], tick)
    IN  IF s1.auto_paused THEN s1
        ELSE IF MaeBreach(s1) THEN SetStopLoss([s1 EXCEPT !.auto_paused = TRUE])
        ELSE IF IsNone(tick.prediction) THEN s1
        ELSE IF s1.btc = RZero /\ EntrySignal(s1, tick)
             THEN Buy(s1, tick.timestamp, tick.actual_price, Val(tick.prediction))
        ELSE IF RPos(s1.btc) /\ ExitSignal(s1, tick)
             THEN Sell(s1, tick.timestamp, tick.actual_price, tick.prediction)
        ELSE [s1 EXCEPT !.last_tick = Some(LastTick(tick))]

\* the sum of the profit fields of the records whose type is in counted
\* (float(profit or 0): a missing profit counts as 0)
RECURSIVE SumProfits(_, _)
SumProfits(log, counted) ==
    IF log = <<>> THEN RZero
    ELSE RAdd(IF Head(log).type \in counted /\ ~IsNone(Head(log).profit)
              THEN Val(Head(log).profit) ELSE RZero,
              SumProfits(Tail(log), counted))

GetTotalProfit(s) == SumProfits(s.trade_log, {"BUY", "SELL"})

(* The persistence step raising (os.makedirs in update_session and in       *)
(* save_session is outside the try of the csv writer): the calls as far as  *)
(* they get.  buy() calls save_session last, so its state is that of Buy;   *)
(* sell() stops at its first persistence call, before clearing the          *)
(* position, and monitor_stop_loss before clearing the stop-loss.           *)
SellSaveRaises(s, timestamp, price, predicted) ==
    IF SellFilling(s) THEN SellUntilUpdate(s, price)
    ELSE SellUntilSave(s, timestamp, price, predicted)

MonitorStopLossSaveRaises(s, tick) ==
    IF StopLossHit(s, tick)
    THEN SellSaveRaises(s, tick.timestamp, tick.actual_price, None)
    ELSE s

ProcessTickSaveRaises(s, tick) ==
    LET s0 == [s EXCEPT !.last_mae = tick.mae_10min]
    IN  IF StopLossHit(s0, tick) THEN MonitorStopLossSaveRaises(s0, tick)
        ELSE IF s0.auto_paused THEN s0
        ELSE IF MaeBreach(s0) THEN SetStopLoss([s0 EXCEPT !.auto_paused = TRUE])
        ELSE IF IsNone(tick.prediction) THEN s0
        ELSE IF s0.btc = RZero /\ EntrySignal(s0, tick)
             THEN Buy(s0, tick.timestamp, tick.actual_price, Val(tick.prediction))
        ELSE IF RPos(s0.btc) /\ ExitSignal(s0, tick)
             THEN SellSaveRaises(s0, tick.timestamp, tick.actual_price, tick.prediction)
        ELSE [s0 EXCEPT !.last_tick = Some(LastTick(tick))]

(* ------------------------------- state --------------------------------- *)
VARIABLES
    clock,        \* datetime.now(), in whole seconds
    simulations,  \* the registry: interval -> session_id -> entry
    sims,         \* the TradeSimulator objects, in creation order
    wpc,          \* wpc[i]: position of the worker thread of sims[i] in _run_loop
    wpaused,      \* wpaused[i]: that worker's local variable `paused`
    files,        \* session_id -> the persisted file simulation_<session_id>.csv
    toggles,      \* per dashboard callback: the pause toggle it is executing
    wtick         \* wtick[i]: the tick of worker i's monitor_stop_loss call in progress

vars == <<clock, simulations, sims, wpc, wpaused, files, toggles, wtick>>

\* the two callbacks that toggle pause: handle_table_actions, control_simulation
Callers == {"session_manager", "dashboard"}

\* save_session and the writer it calls: nothing for an empty trade log, else
\* the file is rewritten whole.  locked: the caller holds the manager's lock.
SaveSession(fs, s, locked) ==
    IF s.trade_log = <<>> THEN fs
    ELSE [k \in DOMAIN fs \cup {s.session_id} |->
             IF k = s.session_id THEN [log |-> s.trade_log, locked |-> locked]
             ELSE fs[k]]

\* f"{interval}_{datetime.now().strftime('%Y%m%d_%H%M%S')}"
SessionId(interval, now) == <<interval, now>>

Registered(interval, session_id) ==
    /\ interval \in DOMAIN simulations
    /\ session_id \in DOMAIN simulations[interval]

\* the manager as constructed: no sessions
InitReg ==
    /\ clock = 0
    /\ simulations = <<>>
    /\ sims = <<>>
    /\ wpc = <<>>
    /\ wpaused = <<>>
    /\ files = <<>>
    /\ toggles = [c \in Callers |-> None]
    /\ wtick = <<>>

(* --------------------------- SimulationManager ------------------------- *)
ClockTick ==
    /\ clock < MaxClock
    /\ Len(sims) < MaxSims
    /\ clock' = clock + 1
    /\ UNCHANGED <<simulations, sims, wpc, wpaused, files, toggles, wtick>>

RegistryPut(reg, interval, session_id, entry) ==
    LET inner == IF interval \in DOMAIN reg THEN reg[interval] ELSE <<>>
        inner2 == [k \in DOMAIN inner \cup {session_id} |->
                      IF k = session_id THEN entry ELSE inner[k]]
    IN  [iv \in DOMAIN reg \cup {interval} |->
            IF iv = interval THEN inner2 ELSE reg[iv]]

\* variant: an interval left without sessions stays in the registry
RegistryDel_keepInterval(reg, interval, session_id) ==
    [reg EXCEPT ![interval] =
        [k \in DOMAIN reg[interval] \ {session_id} |-> reg[interval][k]]]

RegistryDel(reg, interval, session_id) ==
    LET inner2 == [k \in DOMAIN reg[interval] \ {session_id} |-> reg[interval][k]]
    IN  IF DOMAIN inner2 = {}
        THEN [iv \in DOMAIN reg \ {interval} |-> reg[iv]]
        ELSE [reg EXCEPT ![interval] = inner2]

StartSimulation(interval, balance, entry_threshold, exit_threshold, fee, mae_stop_enabled, stop_loss_pct) ==
    LET session_id == SessionId(interval, clock)
        id == Len(sims) + 1
        sim == NewSimulator(balance, entry_threshold, exit_threshold, fee, interval,
                            session_id, mae_stop_enabled, DefaultMaeStopThreshold,
                            stop_loss_pct)
    IN  /\ Len(sims) < MaxSims
        /\ sims' = Append(sims, sim)
        /\ simulations' = RegistryPut(simulations, interval, session_id,
               [thread |-> id, sim |-> id, running |-> TRUE, paused |-> FALSE])
        /\ wpc' = Append(wpc, "check")
        /\ wpaused' = Append(wpaused, FALSE)
        /\ wtick' = Append(wtick, None)
        /\ UNCHANGED <<clock, files, toggles>>

\* variant: stopping one session empties the registry
StopSimulation_wholeRegistry(interval, session_id) ==
    /\ IF Registered(interval, session_id)
       THEN /\ files' = SaveSession(files, sims[simulations[interval][session_id].sim], TRUE)
            /\ simulations' = <<>>
       ELSE UNCHANGED <<simulations, files>>
    /\ UNCHANGED <<clock, sims, wpc, wpaused, toggles, wtick>>

StopSimulation(interval, session_id) ==
    /\ IF Registered(interval, session_id)
       THEN /\ files' = SaveSession(files, sims[simulations[interval][session_id].sim], TRUE)
            /\ simulations' = RegistryDel(simulations, interval, session_id)
       ELSE UNCHANGED <<simulations, files>>
    /\ UNCHANGED <<clock, sims, wpc, wpaused, toggles, wtick>>

\* variant: un-pausing leaves the stop-loss armed
PauseSimulation_keepsStopLoss(interval, session_id, pause) ==
    /\ IF Registered(interval, session_id)
       THEN LET id == simulations[interval][session_id].sim
            IN  /\ simulations' =
                       [simulations EXCEPT ![interval][session_id].paused = pause]
                /\ sims' = [sims EXCEPT ![id] =
                       IF pause /\ RPos(@.btc) THEN SetStopLoss(@) ELSE @]
       ELSE UNCHANGED <<simulations, sims>>
    /\ UNCHANGED <<clock, wpc, wpaused, files, wtick>>

PauseSimulation(interval, session_id, pause) ==
    /\ IF Registered(interval, session_id)
       THEN LET id == simulations[interval][session_id].sim
            IN  /\ simulations' =
                       [simulations EXCEPT ![interval][session_id].paused = pause]
                /\ sims' = [sims EXCEPT ![id] =
                       IF pause /\ RPos(@.btc) THEN SetStopLoss(@)
                       ELSE IF ~pause THEN [@ EXCEPT !.stop_loss_price = None]
                       ELSE @]
       ELSE UNCHANGED <<simulations, sims>>
    /\ UNCHANGED <<clock, wpc, wpaused, files, wtick>>

\* what the commands return to their caller: neither has a return statement
StopSimulationResult(interval, session_id) ==
    IF Registered(interval, session_id) THEN None ELSE None

PauseSimulationResult(interval, session_id, pause) ==
    IF Registered(interval, session_id) THEN None ELSE None

\* the simulator index get_simulator returns, None when there is no session
GetSimulator(interval, session_id) ==
    IF Registered(interval, session_id)
    THEN Some(simulations[interval][session_id].sim)
    ELSE None

\* the (interval, session_id) pairs of the rows list_sessions returns
ListSessions ==
    UNION {{<<interval, session_id>> : session_id \in DOMAIN simulations[interval]} :
               interval \in DOMAIN simulations}

(* ------------------------------ _run_loop ------------------------------ *)
WorkerCheck(w) ==
    LET interval == sims[w].interval
        session_id == sims[w].session_id
    IN  /\ wpc[w] = "check"
        /\ IF ~Registered(interval, session_id)
           THEN wpc' = [wpc EXCEPT ![w] = "done"] /\ UNCHANGED wpaused
           ELSE IF ~simulations[interval][session_id].running
           THEN wpc' = [wpc EXCEPT ![w] = "done"] /\ UNCHANGED wpaused
           ELSE /\ wpaused' = [wpaused EXCEPT ![w] = simulations[interval][session_id].paused]
                /\ wpc' = [wpc EXCEPT ![w] = "fetch"]
        /\ UNCHANGED <<clock, simulations, sims, files, toggles, wtick>>

\* variant: the exception ends the worker
WorkerFetchFail_dies(w) ==
    /\ wpc[w] = "fetch"
    /\ wpc' = [wpc EXCEPT ![w] = "done"]
    /\ wpaused' = [wpaused EXCEPT ![w] = FALSE]
    /\ UNCHANGED <<clock, simulations, sims, files, toggles, wtick>>

\* TableParser.fetch or TableParser.parse raises: logged, iteration skipped
WorkerFetchFail(w) ==
    /\ wpc[w] = "fetch"
    /\ wpc' = [wpc EXCEPT ![w] = "except"]
    /\ wpaused' = [wpaused EXCEPT ![w] = FALSE]
    /\ UNCHANGED <<clock, simulations, sims, files, toggles, wtick>>

AfterTick(s, paused, tick) ==
    IF paused THEN MonitorStopLoss(s, tick) ELSE ProcessTick(s, tick)

\* a tick that trades is fed while the log holds fewer than maxlog records;
\* buy() and sell(), the calls that change the log, persist it
WorkerTickUpTo(w, tick, maxlog) ==
    /\ wpc[w] = "fetch"
    /\ \/ Len(sims[w].trade_log) < maxlog
       \/ AfterTick(sims[w], wpaused[w], tick).trade_log = sims[w].trade_log
    /\ sims' = [sims EXCEPT ![w] = AfterTick(sims[w], wpaused[w], tick)]
    /\ files' = IF sims'[w].trade_log # sims[w].trade_log
                THEN SaveSession(files, sims'[w], FALSE)
                ELSE files
    /\ wpc' = [wpc EXCEPT ![w] = "sleep"]
    /\ wpaused' = [wpaused EXCEPT ![w] = FALSE]
    /\ UNCHANGED <<clock, simulations, toggles, wtick>>

WorkerTick(w, tick) == WorkerTickUpTo(w, tick, MaxLog)

AfterTickSaveRaises(s, paused, tick) ==
    IF paused THEN MonitorStopLossSaveRaises(s, tick) ELSE ProcessTickSaveRaises(s, tick)

\* the tick's call reaches a persistence call, which raises; the worker's
\* handler catches the exception
WorkerTickSaveFails(w, tick) ==
    /\ wpc[w] = "fetch"
    /\ Len(sims[w].trade_log) < MaxLog
    /\ AfterTick(sims[w], wpaused[w], tick).trade_log # sims[w].trade_log
    /\ AfterTickSaveRaises(sims[w], wpaused[w], tick).total_predictions <= MaxLog
    /\ sims' = [sims EXCEPT ![w] = AfterTickSaveRaises(sims[w], wpaused[w], tick)]
    /\ wpc' = [wpc EXCEPT ![w] = "except"]
    /\ wpaused' = [wpaused EXCEPT ![w] = FALSE]
    /\ UNCHANGED <<clock, simulations, files, toggles, wtick>>

\* stop_simulation whose save_session raises: the exception leaves the method
\* after running was cleared and before the entry is deleted
StopSimulationSaveFails(interval, session_id) ==
    /\ Registered(interval, session_id)
    /\ sims[simulations[interval][session_id].sim].trade_log # <<>>
    /\ simulations' = [simulations EXCEPT ![interval][session_id].running = FALSE]
    /\ UNCHANGED <<clock, sims, wpc, wpaused, files, toggles, wtick>>

\* time.sleep(poll_interval), reached after the tick or after the handler
WorkerSleep(w) ==
    /\ wpc[w] \in {"sleep", "except"}
    /\ wpc' = [wpc EXCEPT ![w] = "check"]
    /\ UNCHANGED <<clock, simulations, sims, wpaused, files, toggles, wtick>>

Workers == 1..Len(sims)

StartInputs ==
    [interval : Intervals, balance : StartBalances, fee : FeePcts,
     entry_threshold : EntryThresholds, exit_threshold : ExitThresholds,
     mae_stop_enabled : MaeEnabled, stop_loss_pct : StopLossPcts]

Start(in) ==
    StartSimulation(in.interval, in.balance, in.entry_threshold, in.exit_threshold,
                    in.fee, in.mae_stop_enabled, in.stop_loss_pct)

\* the (interval, session_id) pairs a command can name: the sessions created
\* so far, registered or already stopped
Targets == {<<sims[i].interval, sims[i].session_id>> : i \in 1..Len(sims)}

\* the worker steps of the sessions that exist, and stop_simulation
Run(ticks) ==
    \/ \E target \in Targets : StopSimulation(target[1], target[2])
    \/ \E w \in Workers : WorkerCheck(w)
    \/ \E w \in Workers : WorkerFetchFail(w)
    \/ \E w \in Workers, tick \in ticks : WorkerTick(w, tick)
    \/ \E w \in Workers : WorkerSleep(w)

Pause ==
    /\ \E target \in Targets, pause \in BOOLEAN :
           PauseSimulation(target[1], target[2], pause)
    /\ UNCHANGED toggles

(* The pause branch of a dashboard callback, in its two steps: the registry *)
(* is read with .get() outside the manager's lock, then pause_simulation    *)
(* is called with the negation of what was read.                            *)
ToggleRead(c, interval, session_id) ==
    /\ toggles[c] = None
    /\ toggles' = [toggles EXCEPT ![c] =
           Some([interval |-> interval, session_id |-> session_id,
                 current_paused |-> IF Registered(interval, session_id)
                                    THEN simulations[interval][session_id].paused
                                    ELSE FALSE])]
    /\ UNCHANGED <<clock, simulations, sims, wpc, wpaused, files, wtick>>

ToggleWrite(c) ==
    /\ toggles[c] # None
    /\ PauseSimulation(Val(toggles[c]).interval, Val(toggles[c]).session_id,
                       ~Val(toggles[c]).current_paused)
    /\ toggles' = [toggles EXCEPT ![c] = None]

Toggle ==
    \/ \E c \in Callers, target \in Targets : ToggleRead(c, target[1], target[2])
    \/ \E c \in Callers : ToggleWrite(c)

(* One funded session, every tick: the state after the manager was        *)
(* constructed and start_simulation was called once.                       *)
Init ==
    \E in \in {x \in StartInputs : x.interval = "5s" /\ RPos(x.balance)} :
        LET session_id == SessionId(in.interval, 0)
        IN  /\ clock = 0
            /\ sims = <<NewSimulator(in.balance, in.entry_threshold, in.exit_threshold,
                            in.fee, in.interval, session_id, in.mae_stop_enabled,
                            DefaultMaeStopThreshold, in.stop_loss_pct)>>
            /\ simulations = RegistryPut(<<>>, in.interval, session_id,
                   [thread |-> 1, sim |-> 1, running |-> TRUE, paused |-> FALSE])
            /\ wpc = <<"check">>
            /\ wpaused = <<FALSE>>
            /\ files = <<>>
            /\ toggles = [c \in Callers |-> None]
            /\ wtick = <<None>>

Next == Pause \/ Run(Ticks)

Spec == Init /\ [][Next]_vars

(* The same, with a persistence step that can fail.                        *)
NextFault ==
    \/ Next
    \/ \E w \in Workers, tick \in Ticks : WorkerTickSaveFails(w, tick)
    \/ \E target \in Targets : StopSimulationSaveFails(target[1], target[2])

SpecFault == Init /\ [][NextFault]_vars

(* The same, for a session started with a zero balance.                    *)
InitUnfunded ==
    \E in \in {x \in StartInputs : x.interval = "5s" /\ ~RPos(x.balance)} :
        LET session_id == SessionId(in.interval, 0)
        IN  /\ clock = 0
            /\ sims = <<NewSimulator(in.balance, in.entry_threshold, in.exit_threshold,
                            in.fee, in.interval, session_id, in.mae_stop_enabled,
                            DefaultMaeStopThreshold, in.stop_loss_pct)>>
            /\ simulations = RegistryPut(<<>>, in.interval, session_id,
                   [thread |-> 1, sim |-> 1, running |-> TRUE, paused |-> FALSE])
            /\ wpc = <<"check">>
            /\ wpaused = <<FALSE>>
            /\ files = <<>>
            /\ toggles = [c \in Callers |-> None]
            /\ wtick = <<None>>

SpecUnfunded == InitUnfunded /\ [][Next]_vars

(* Several sessions, started and stopped at any time, fed one entry tick.  *)
RegTicks ==
    {[timestamp |-> 1, actual_price |-> 1, prediction |-> Some(1), mae_10min |-> None]}

RegInputs == {in \in StartInputs : in.mae_stop_enabled /\ RPos(in.balance)}

NextReg ==
    \/ ClockTick
    \/ \E in \in RegInputs : Start(in)
    \/ Run(RegTicks)

SpecReg == InitReg /\ [][NextReg]_vars

(* One funded session fed the entry tick and driven from the two dashboards' *)
(* pause buttons.                                                          *)
NextToggle == Toggle \/ Run(RegTicks)

SpecToggle == Init /\ [][NextToggle]_vars

(* One funded session left running, fed ticks that carry a prediction and  *)
(* no MAE, for two round trips.                                            *)
LogTicks == {tick \in Ticks : IsNone(tick.mae_10min) /\ ~IsNone(tick.prediction)}

NextLog ==
    \/ \E w \in Workers : WorkerCheck(w)
    \/ \E w \in Workers, tick \in LogTicks : WorkerTickUpTo(w, tick, MaxLog + 2)
    \/ \E w \in Workers : WorkerSleep(w)

SpecLog == Init /\ [][NextLog]_vars

(* monitor_stop_loss of a paused session in its two reads of                *)
(* stop_loss_price: the test `self.stop_loss_price is not None and         *)
(* self.btc > 0`, then the comparison `price <= self.stop_loss_price`.     *)
(* The call runs outside the manager's lock, so pause_simulation can run   *)
(* between the two.                                                        *)
MonitorTest(w, tick) ==
    /\ wpc[w] = "fetch"
    /\ wpaused[w]
    /\ Len(sims[w].trade_log) < MaxLog
    /\ IF ~IsNone(sims[w].stop_loss_price) /\ RPos(sims[w].btc)
       THEN /\ wpc' = [wpc EXCEPT ![w] = "monitor"]
            /\ wtick' = [wtick EXCEPT ![w] = Some(tick)]
            /\ UNCHANGED wpaused
       ELSE /\ wpc' = [wpc EXCEPT ![w] = "sleep"]
            /\ wpaused' = [wpaused EXCEPT ![w] = FALSE]
            /\ UNCHANGED wtick
    /\ UNCHANGED <<clock, simulations, sims, files, toggles>>

\* comparing a number with None raises TypeError, which the worker's handler
\* catches
MonitorCompare(w) ==
    /\ wpc[w] = "monitor"
    /\ IF IsNone(sims[w].stop_loss_price)
       THEN /\ wpc' = [wpc EXCEPT ![w] = "except"]
            /\ UNCHANGED <<sims, files>>
       ELSE /\ sims' = [sims EXCEPT ![w] = MonitorStopLoss(sims[w], Val(wtick[w]))]
            /\ files' = IF sims'[w].trade_log # sims[w].trade_log
                        THEN SaveSession(files, sims'[w], FALSE)
                        ELSE files
            /\ wpc' = [wpc EXCEPT ![w] = "sleep"]
    /\ wtick' = [wtick EXCEPT ![w] = None]
    /\ wpaused' = [wpaused EXCEPT ![w] = FALSE]
    /\ UNCHANGED <<clock, simulations, toggles>>

(* One funded session, paused and unpaused at any time, with the paused     *)
(* worker's stop-loss check in its two steps.                              *)
NextMonitor ==
    \/ Pause
    \/ \E w \in Workers : WorkerCheck(w)
    \/ \E w \in Workers, tick \in LogTicks : ~wpaused[w] /\ WorkerTick(w, tick)
    \/ \E w \in Workers, tick \in LogTicks : MonitorTest(w, tick)
    \/ \E w \in Workers : MonitorCompare(w)
    \/ \E w \in Workers : WorkerSleep(w)

SpecMonitor == Init /\ [][NextMonitor]_vars

\* one step of the worker thread of sims[w]
WorkerStep(w) ==
    /\ w \in Workers
    /\ \/ WorkerCheck(w)
       \/ WorkerFetchFail(w)
       \/ \E tick \in RegTicks : WorkerTick(w, tick)
       \/ WorkerSleep(w)

(* The same with every worker thread scheduled again and again: the fetch   *)
(* has a timeout, the sleep ends, and the lock is held only briefly.         *)
SpecRegFair == SpecReg /\ \A w \in 1..MaxSims : WF_vars(WorkerStep(w))

TypeOK ==
    /\ clock \in 0..MaxClock
    /\ \A w \in Workers : wpc[w] \in {"check", "fetch", "monitor", "sleep", "except", "done"}
    /\ \A w \in Workers : (wpc[w] = "monitor") <=> ~IsNone(wtick[w])
    /\ \A id \in DOMAIN files : files[id].locked \in BOOLEAN
    /\ \A c \in Callers : toggles[c] = None \/ Val(toggles[c]).current_paused \in BOOLEAN

(* ----------------------------- vocabulary ------------------------------ *)
Flat(s) == s.btc = RZero
Long(s) == RPos(s.btc)

\* the records appended to the trade log between simulator states s and t
NewRecords(s, t) == SubSeq(t.trade_log, Len(s.trade_log) + 1, Len(t.trade_log))

IsStopLossSell(r) == r.type = "SELL" /\ IsNone(r.predicted_change_pct)

LastRecord(s) == s.trade_log[Len(s.trade_log)]

\* this step is the worker of sims[w] ending an iteration in which it called
\* process_tick or monitor_stop_loss / in which it called process_tick
TickCall(w) == wpc[w] = "fetch" /\ wpc'[w] = "sleep"
ProcessCall(w) == TickCall(w) /\ ~wpaused[w]

\* ... and the tick it fed can have been this one.  (process_tick stores the
\* tick's mae_10min first; the test spares evaluating the call for other
\* ticks.)
ProcessTickStep(w, tick) ==
    /\ sims'[w].last_mae = tick.mae_10min
    /\ sims'[w] = ProcessTick(sims[w], tick)

TickStep(w, tick) ==
    IF wpaused[w] THEN sims'[w] = MonitorStopLoss(sims[w], tick)
    ELSE ProcessTickStep(w, tick)

TickBreachesMae(s, tick) ==
    /\ s.mae_stop_enabled
    /\ ~IsNone(tick.mae_10min)
    /\ Val(tick.mae_10min) > s.mae_stop_threshold

TickAtOrBelowStop(s, tick) ==
    /\ Long(s)
    /\ ~IsNone(s.stop_loss_price)
    /\ RLe(R(tick.actual_price), Val(s.stop_loss_price))

\* (actual_price - entry_price) / entry_price * 100 >= exit_threshold
GainReached(s, tick) ==
    (tick.actual_price - s.buy_price) * 100 >= s.exit_threshold * s.buy_price

SoldAt(s, t, tick) ==
    /\ Len(t.trade_log) = Len(s.trade_log) + 1
    /\ LastRecord(t).type = "SELL"
    /\ LastRecord(t).price = tick.actual_price
    /\ Flat(t)

BoughtAt(s, t, tick) ==
    /\ Len(t.trade_log) = Len(s.trade_log) + 1
    /\ LastRecord(t).type = "BUY"
    /\ LastRecord(t).price = tick.actual_price
    /\ LastRecord(t).predicted_change_pct = tick.prediction

(* ------------------------------- claims -------------------------------- *)

\* C1: in every reachable state of every session, position_size > 0 implies
\* balance = 0, and position_size = 0 implies balance >= 0.
C1_SingleState ==
    \A i \in 1..Len(sims) :
        /\ Long(sims[i]) => sims[i].balance = RZero
        /\ Flat(sims[i]) => RLe(RZero, sims[i].balance)

\* C2: while LONG and not paused or auto-paused, a process_tick call on a tick
\* with a prediction (no MAE breach, no stop-loss hit) executes a SELL when the
\* realized gain is at or above exit_threshold, and also when
\* predicted_change_pct is at or below -exit_threshold.
C2_ExitOnGainOrForecast ==
    [][\A w \in Workers :
        (ProcessCall(w) /\ Long(sims[w]) /\ ~sims[w].auto_paused) =>
        \A tick \in Ticks :
            ( /\ ~IsNone(tick.prediction)
              /\ ~TickBreachesMae(sims[w], tick)
              /\ ~TickAtOrBelowStop(sims[w], tick)
              /\ \/ GainReached(sims[w], tick)
                 \/ Val(tick.prediction) <= -sims[w].exit_threshold
              /\ ProcessTickStep(w, tick) )
            => SoldAt(sims[w], sims'[w], tick)]_vars

\* C3 as stated: while FLAT and not paused or auto-paused, process_tick on a
\* tick carrying a prediction executes a BUY if and only if
\* predicted_change_pct >= entry_threshold; a smaller value leaves the session
\* FLAT with no trade record appended.
C3_EntryIffThreshold ==
    [][\A w \in Workers :
        (ProcessCall(w) /\ Flat(sims[w]) /\ ~sims[w].auto_paused) =>
        \A tick \in Ticks :
            (~IsNone(tick.prediction) /\ ProcessTickStep(w, tick))
            => IF Val(tick.prediction) >= sims[w].entry_threshold
               THEN BoughtAt(sims[w], sims'[w], tick)
               ELSE Flat(sims'[w]) /\ sims'[w].trade_log = sims[w].trade_log]_vars

\* C3 amended: the same, for a tick that does not trigger the MAE auto-pause
\* (mae_stop_enabled false, or mae_10min absent or not above
\* mae_stop_threshold).
C3_EntryIffThresholdNoMaeBreach ==
    [][\A w \in Workers :
        (ProcessCall(w) /\ Flat(sims[w]) /\ ~sims[w].auto_paused) =>
        \A tick \in Ticks :
            ( /\ ~IsNone(tick.prediction)
              /\ ~TickBreachesMae(sims[w], tick)
              /\ ProcessTickStep(w, tick) )
            => IF Val(tick.prediction) >= sims[w].entry_threshold
               THEN BoughtAt(sims[w], sims'[w], tick)
               ELSE Flat(sims'[w]) /\ sims'[w].trade_log = sims[w].trade_log]_vars

\* a BUY executed on a prediction exactly equal to the entry threshold
C3_Witness ==
    \E i \in 1..Len(sims) :
        /\ sims[i].trade_log # <<>>
        /\ LastRecord(sims[i]).type = "BUY"
        /\ LastRecord(sims[i]).predicted_change_pct = Some(sims[i].entry_threshold)
        /\ Long(sims[i])

\* C4: with a position open and stop_loss_price set, any tick with
\* actual_price <= stop_loss_price, fed through process_tick or (while paused)
\* through monitor_stop_loss, produces a SELL at that price whatever its
\* prediction and whatever auto_paused is, and stop_loss_price is null
\* afterwards.
C4_StopLossForcesSell ==
    [][\A w \in Workers :
        (TickCall(w) /\ Long(sims[w]) /\ ~IsNone(sims[w].stop_loss_price)) =>
        \A tick \in Ticks :
            (TickAtOrBelowStop(sims[w], tick) /\ TickStep(w, tick))
            => /\ Len(sims'[w].trade_log) > Len(sims[w].trade_log)
               /\ IsStopLossSell(sims'[w].trade_log[Len(sims[w].trade_log) + 1])
               /\ sims'[w].trade_log[Len(sims[w].trade_log) + 1].price = tick.actual_price
               /\ IsNone(sims'[w].stop_loss_price)]_vars

\* a stop-loss SELL has just closed the position
C4_Witness ==
    \E i \in 1..Len(sims) :
        /\ sims[i].trade_log # <<>>
        /\ IsStopLossSell(LastRecord(sims[i]))
        /\ IsNone(sims[i].stop_loss_price)
        /\ Flat(sims[i])

\* C5: a process_tick call on a tick whose mae_10min is strictly above
\* mae_stop_threshold, with mae_stop_enabled and auto_paused false, sets
\* auto_paused, arms stop_loss_price = entry_price * (1 - stop_loss_pct) when
\* the session is LONG, leaves it null when FLAT, and appends no trade record
\* for the tick's prediction.
C5_MaeBreachAutoPauses ==
    [][\A w \in Workers :
        (ProcessCall(w) /\ ~sims[w].auto_paused) =>
        \A tick \in Ticks :
            (TickBreachesMae(sims[w], tick) /\ ProcessTickStep(w, tick))
            => /\ sims'[w].auto_paused
               /\ \A k \in 1..Len(NewRecords(sims[w], sims'[w])) :
                      IsStopLossSell(NewRecords(sims[w], sims'[w])[k])
               /\ (Long(sims[w]) /\ ~TickAtOrBelowStop(sims[w], tick))
                      => /\ sims'[w].btc = sims[w].btc
                         /\ sims'[w].stop_loss_price =
                                Some(RMul(R(sims[w].buy_price),
                                          RSub(R(1), sims[w].stop_loss_pct)))
               /\ (Flat(sims[w]) \/ TickAtOrBelowStop(sims[w], tick))
                      => Flat(sims'[w]) /\ IsNone(sims'[w].stop_loss_price)]_vars

\* an MAE breach has auto-paused a LONG session and armed its stop-loss
C5_Witness ==
    \E i \in 1..Len(sims) :
        /\ sims[i].auto_paused
        /\ Long(sims[i])
        /\ ~IsNone(sims[i].last_mae)
        /\ Val(sims[i].last_mae) > sims[i].mae_stop_threshold
        /\ sims[i].stop_loss_price =
               Some(RMul(R(sims[i].buy_price), RSub(R(1), sims[i].stop_loss_pct)))

\* C6: while auto_paused is true no process_tick call opens a position or
\* closes one on a signal; the only trade is a stop-loss SELL, a FLAT session
\* stays FLAT and a LONG one leaves LONG only through the stop-loss.
C6_AutoPausedOnlyStopLoss ==
    [][\A w \in Workers :
        (ProcessCall(w) /\ sims[w].auto_paused) =>
        \A tick \in Ticks :
            ProcessTickStep(w, tick)
            => /\ sims'[w].auto_paused
               /\ Len(NewRecords(sims[w], sims'[w])) <= 1
               /\ \A k \in 1..Len(NewRecords(sims[w], sims'[w])) :
                      IsStopLossSell(NewRecords(sims[w], sims'[w])[k])
               /\ Flat(sims[w])
                      => Flat(sims'[w]) /\ sims'[w].trade_log = sims[w].trade_log
               /\ (Long(sims[w]) /\ ~Long(sims'[w]))
                      => /\ TickAtOrBelowStop(sims[w], tick)
                         /\ Len(NewRecords(sims[w], sims'[w])) = 1]_vars

\* an auto-paused session whose position was closed by the stop-loss
C6_Witness ==
    \E i \in 1..Len(sims) :
        /\ sims[i].auto_paused
        /\ Flat(sims[i])
        /\ sims[i].trade_log # <<>>
        /\ IsStopLossSell(LastRecord(sims[i]))
        /\ ~IsNone(sims[i].last_mae)
        /\ Val(sims[i].last_mae) > sims[i].mae_stop_threshold

\* C7: after pause_simulation(interval, session_id, False) on a registered
\* session, auto_paused is false.
C7_UnpauseClearsAutoPause ==
    [][\A target \in Targets :
        (Registered(target[1], target[2])
         /\ PauseSimulation(target[1], target[2], FALSE))
        => ~sims'[simulations[target[1]][target[2]].sim].auto_paused]_vars

\* C8: for a BUY at price P0 with cash balance B0 immediately followed by a
\* SELL at price P1 under the fee rate f = fee_pct / 100, the SELL's profit is
\* B0*(1-f)/P0 * P1*(1-f) - B0*(1-f), and the balance after the SELL is the
\* cost basis B0*(1-f) plus that profit.
C8_RoundTripProfit ==
    \A i \in 1..Len(sims) :
        \A k \in 1..(Len(sims[i].trade_log) - 1) :
            LET buy == sims[i].trade_log[k]
                sell == sims[i].trade_log[k + 1]
                f == RDiv(sims[i].fee_pct, R(100))
                cost == RMul(buy.balance, RSub(R(1), f))
                proceeds == RMul(RMul(RDiv(cost, R(buy.price)), R(sell.price)),
                                 RSub(R(1), f))
            IN  (buy.type = "BUY" /\ sell.type = "SELL")
                => /\ sell.profit = Some(RSub(proceeds, cost))
                   /\ sell.balance = RAdd(cost, RSub(proceeds, cost))

\* C9: in every reachable state of every session,
\* 0 <= correct_predictions <= total_predictions.
C9_AccuracyCounters ==
    \A i \in 1..Len(sims) :
        /\ 0 <= sims[i].correct_predictions
        /\ sims[i].correct_predictions <= sims[i].total_predictions

\* predictions were scored, some right and some wrong, across a round trip
C9_Witness ==
    \E i \in 1..Len(sims) :
        /\ sims[i].correct_predictions >= 1
        /\ sims[i].correct_predictions < sims[i].total_predictions
        /\ Len(sims[i].trade_log) >= 2

\* C10: any two calls to start_simulation return distinct session ids and
\* create two distinct registry entries (sims[i].session_id is the id returned
\* by the i-th call).
C10_DistinctSessionIds ==
    \A i, j \in 1..Len(sims) :
        i # j => sims[i].session_id # sims[j].session_id

\* C11: after stop_simulation(interval, session_id) on a registered session the
\* session is absent from the registry: get_simulator returns the absent value,
\* list_sessions does not contain it, and no interval is left in the registry
\* without sessions.
C11_StopRemovesSession ==
    [][\A target \in Targets :
        (Registered(target[1], target[2]) /\ StopSimulation(target[1], target[2]))
        => /\ ~Registered(target[1], target[2])'
           /\ IsNone(GetSimulator(target[1], target[2]))'
           /\ (target \notin ListSessions)'
           /\ \A interval \in DOMAIN simulations' :
                  DOMAIN simulations'[interval] # {}]_vars

\* a session was stopped, it was the last one of its interval, and another
\* interval still has a session
C11_Witness ==
    \E i \in 1..Len(sims) :
        /\ IsNone(GetSimulator(sims[i].interval, sims[i].session_id))
        /\ sims[i].interval \notin DOMAIN simulations
        /\ simulations # <<>>

\* C12: after stop_simulation was called for a running session (its id is no
\* longer in the registry), under fair scheduling that session's worker
\* eventually exits.
C12_StoppedWorkerExits ==
    \A w \in 1..MaxSims :
        (w \in Workers /\ ~Registered(sims[w].interval, sims[w].session_id))
        ~> (w \in Workers /\ wpc[w] = "done")

\* C13: once stop_simulation was called while the session's worker is sleeping
\* between polls (the worker sleeps and its session id is not in the
\* registry), the worker never fetches another tick and no further trade
\* record is appended to that session's trade log.
C13_StopWhileSleeping ==
    \A w \in 1..MaxSims, n \in 0..MaxLog :
        []( ( /\ w \in Workers
              /\ wpc[w] \in {"sleep", "except"}
              /\ ~Registered(sims[w].interval, sims[w].session_id)
              /\ Len(sims[w].trade_log) = n )
            => [](w \in Workers => (wpc[w] # "fetch" /\ Len(sims[w].trade_log) = n)) )

\* C14: with sessions running on different intervals, stop_simulation on one
\* leaves the registry entry of a session on another interval (simulator,
\* running and paused flags), its worker (alive, at the same place of its loop)
\* and its simulator state and trade log unchanged.
C14_StopLeavesOtherInterval ==
    [][\A target \in Targets :
        (Registered(target[1], target[2]) /\ StopSimulation(target[1], target[2]))
        => \A o \in Workers :
               ( /\ sims[o].interval # target[1]
                 /\ Registered(sims[o].interval, sims[o].session_id) )
               => /\ Registered(sims[o].interval, sims[o].session_id)'
                  /\ simulations'[sims[o].interval][sims[o].session_id]
                         = simulations[sims[o].interval][sims[o].session_id]
                  /\ sims'[o] = sims[o]
                  /\ wpc'[o] = wpc[o]
                  /\ wpaused'[o] = wpaused[o]
                  /\ simulations[sims[o].interval][sims[o].session_id].sim = o
                         => wpc'[o] # "done"]_vars

\* one of two sessions on different intervals was stopped; the other is
\* registered, its worker is in its loop and it has traded
C14_Witness ==
    \E i, o \in 1..Len(sims) :
        /\ sims[i].interval # sims[o].interval
        /\ ~Registered(sims[i].interval, sims[i].session_id)
        /\ Registered(sims[o].interval, sims[o].session_id)
        /\ wpc[o] \in {"check", "fetch", "sleep", "except"}
        /\ sims[o].trade_log # <<>>

\* C15: pause_simulation(interval, session_id, True) on a session with an open
\* position sets stop_loss_price to entry_price * (1 - stop_loss_pct) and on a
\* FLAT session leaves it unchanged; pause_simulation(..., False) sets it to
\* null; both set the registry's paused flag to the given value and change no
\* other simulator field (and nothing else of the registry).
C15_PauseArmsUnpauseClears ==
    [][\A target \in Targets, pause \in BOOLEAN :
        (Registered(target[1], target[2])
         /\ PauseSimulation(target[1], target[2], pause))
        => LET id == simulations[target[1]][target[2]].sim
               s == sims[id]
           IN  /\ simulations' = [simulations EXCEPT ![target[1]][target[2]].paused = pause]
               /\ sims'[id] = [s EXCEPT !.stop_loss_price =
                      IF ~pause THEN None
                      ELSE IF Long(s)
                           THEN Some(RMul(R(s.buy_price), RSub(R(1), s.stop_loss_pct)))
                           ELSE s.stop_loss_price]
               /\ \A o \in Workers \ {id} : sims'[o] = sims[o]]_vars

\* a paused session with an open position whose stop-loss was armed by the
\* pause command (it is not auto-paused)
C15_Witness ==
    \E i \in 1..Len(sims) :
        /\ Registered(sims[i].interval, sims[i].session_id)
        /\ simulations[sims[i].interval][sims[i].session_id].paused
        /\ Long(sims[i])
        /\ ~sims[i].auto_paused
        /\ sims[i].stop_loss_price =
               Some(RMul(R(sims[i].buy_price), RSub(R(1), sims[i].stop_loss_pct)))

\* C16: while the registry's paused flag of a session is set (pause_simulation
\* (.., True) has returned and the session was not un-paused since), a tick fed
\* by the worker executes no signal-driven BUY or SELL: the only record it can
\* append is a stop-loss SELL, under any interleaving of the command with the
\* worker's loop.
C16_PausedNoSignalTrade ==
    [][\A w \in Workers :
        ( /\ TickCall(w)
          /\ Registered(sims[w].interval, sims[w].session_id)
          /\ simulations[sims[w].interval][sims[w].session_id].sim = w
          /\ simulations[sims[w].interval][sims[w].session_id].paused )
        => \A k \in 1..Len(NewRecords(sims[w], sims'[w])) :
               IsStopLossSell(NewRecords(sims[w], sims'[w])[k])]_vars

\* C17: a worker stays alive for as long as its session is registered and
\* running: an exception in one iteration is absorbed (the registry, with its
\* running and paused flags, is unchanged), the worker goes on to the sleep and
\* the next loop check, and the loop ends only at the loop check, when the
\* session's id is not in the registry or its running flag is cleared.
C17_WorkerSurvivesExceptions ==
    [][\A w \in Workers :
        LET interval == sims[w].interval
            session_id == sims[w].session_id
        IN  /\ (wpc[w] = "fetch" /\ wpc'[w] \notin {"fetch", "sleep"})
                   => wpc'[w] = "except" /\ simulations' = simulations
            /\ (wpc[w] = "except" /\ wpc'[w] # "except") => wpc'[w] = "check"
            /\ (wpc[w] # "done" /\ wpc'[w] = "done")
                   => /\ wpc[w] = "check"
                      /\ \/ ~Registered(interval, session_id)
                         \/ ~simulations[interval][session_id].running
            /\ ( /\ Registered(interval, session_id)'
                 /\ simulations'[interval][session_id].sim = w
                 /\ simulations'[interval][session_id].running )
                   => wpc'[w] # "done"]_vars

\* an iteration of a registered, running session has just raised
C17_Witness ==
    \E w \in Workers :
        /\ wpc[w] = "except"
        /\ Registered(sims[w].interval, sims[w].session_id)
        /\ simulations[sims[w].interval][sims[w].session_id].running

\* C18: stop_simulation and pause_simulation called with a session id that is
\* not in the registry give the caller a result that is distinguishable from
\* the result of the same command on a registered session.
C18_UnknownSessionReported ==
    \A known, unknown \in Targets :
        (Registered(known[1], known[2]) /\ ~Registered(unknown[1], unknown[2]))
        => /\ StopSimulationResult(unknown[1], unknown[2])
                  # StopSimulationResult(known[1], known[2])
           /\ \A pause \in BOOLEAN :
                  PauseSimulationResult(unknown[1], unknown[2], pause)
                      # PauseSimulationResult(known[1], known[2], pause)

\* C19: a BUY is never executed when the cash balance is <= 0: a process_tick
\* call with a qualifying entry signal (FLAT, not auto-paused, no MAE breach,
\* predicted_change_pct >= entry_threshold) arriving with balance <= 0 appends
\* no trade record and leaves position, entry price and balance unchanged.
C19_NoBuyWithoutFunds ==
    [][\A w \in Workers :
        ( /\ ProcessCall(w)
          /\ ~RPos(sims[w].balance)
          /\ Flat(sims[w])
          /\ ~sims[w].auto_paused ) =>
        \A tick \in Ticks :
            ( /\ ~IsNone(tick.prediction)
              /\ ~TickBreachesMae(sims[w], tick)
              /\ Val(tick.prediction) >= sims[w].entry_threshold
              /\ ProcessTickStep(w, tick) )
            => /\ sims'[w].trade_log = sims[w].trade_log
               /\ sims'[w].btc = sims[w].btc
               /\ sims'[w].buy_price = sims[w].buy_price
               /\ sims'[w].balance = sims[w].balance]_vars

\* C20: a failure of the persistence step during a BUY or a SELL leaves the
\* session's in-memory state as it would be after the same operation with
\* persistence succeeding: the worker's tick call that hit the failure ends in
\* the state some tick's successful call gives, and a SELL record is never
\* the last record of a session that still holds a position or an entry price.
C20_PersistenceFailureHarmless ==
    [][\A w \in Workers :
        (wpc[w] = "fetch" /\ wpc'[w] \in {"sleep", "except"} /\ sims'[w] # sims[w])
        => /\ \E tick \in Ticks : sims'[w] = AfterTick(sims[w], wpaused[w], tick)
           /\ (sims'[w].trade_log # <<>> /\ LastRecord(sims'[w]).type = "SELL")
                  => Flat(sims'[w]) /\ sims'[w].buy_price = 0]_vars

\* process_tick got past the stop-loss check, the auto-pause return, the MAE
\* test and the no-prediction return: its signal tests are evaluated
ReachesSignals(s, tick) ==
    LET s1 == MonitorStopLoss([s EXCEPT !.last_mae = tick.mae_10min], tick)
    IN  ~s1.auto_paused /\ ~MaeBreach(s1) /\ ~IsNone(tick.prediction)

\* C21: every session created by start_simulation has a persisted record
\* from its creation on, whether or not it has traded, also after it was
\* stopped.
C21_InitialRecordPersisted ==
    \A w \in Workers : sims[w].session_id \in DOMAIN files

\* C22: a process_tick call appends at most one record to the trade log; a
\* stop-loss SELL is never followed by a BUY in the same call.
C22_OneTradePerTick ==
    [][\A w \in Workers :
        ProcessCall(w) => Len(NewRecords(sims[w], sims'[w])) <= 1]_vars

\* C23: after a tick call that ends with a SELL, signal or stop-loss, the
\* simulator holds no position, no entry price and no stop-loss price.
C23_SellClearsPositionAndStop ==
    [][\A w \in Workers :
        (TickCall(w) /\ NewRecords(sims[w], sims'[w]) # <<>>
                     /\ LastRecord(sims'[w]).type = "SELL")
        => /\ Flat(sims'[w])
           /\ sims'[w].buy_price = 0
           /\ IsNone(sims'[w].stop_loss_price)]_vars

\* C24: a process_tick call that reaches the signal tests leaves that tick
\* stored as last_tick, whether it bought, sold or did neither.
C24_LastTickStored ==
    [][\A w \in Workers :
        ProcessCall(w)
        => \A tick \in Ticks :
               (ProcessTickStep(w, tick) /\ ReachesSignals(sims[w], tick))
               => sims'[w].last_tick = Some(LastTick(tick))]_vars

\* C25: a BUY record directly followed by the SELL that closed its position
\* carries that SELL's profit and a filled prediction_accuracy.
C25_BuyRecordFilledAtSell ==
    \A w \in Workers :
        \A i \in 1..(Len(sims[w].trade_log) - 1) :
            (sims[w].trade_log[i].type = "BUY" /\ sims[w].trade_log[i + 1].type = "SELL")
            => /\ sims[w].trade_log[i].profit = sims[w].trade_log[i + 1].profit
               /\ ~IsNone(sims[w].trade_log[i].prediction_accuracy)

\* the index of the last BUY record of a trade log, 0 if it has none
MostRecentBuy(log) ==
    IF \E i \in 1..Len(log) : log[i].type = "BUY"
    THEN CHOOSE i \in 1..Len(log) :
             log[i].type = "BUY" /\ \A j \in (i + 1)..Len(log) : log[j].type # "BUY"
    ELSE 0

\* C26: the trade log only grows, and a step changes no record already in
\* it, except the profit and prediction_accuracy of the most recent BUY
\* record in a step that appends its SELL; this also when several BUY
\* records carry the same timestamp.
C26_LogAppendOnly ==
    [][\A w \in Workers :
        LET old == sims[w].trade_log
            new == sims'[w].trade_log
        IN  /\ Len(new) >= Len(old)
            /\ \A i \in 1..Len(old) :
                   \/ new[i] = old[i]
                   \/ /\ i = MostRecentBuy(old)
                      /\ \E j \in (Len(old) + 1)..Len(new) : new[j].type = "SELL"
                      /\ new[i] = [old[i] EXCEPT !.profit = new[i].profit,
                                     !.prediction_accuracy = new[i].prediction_accuracy]]_vars

\* C27: a process_tick call on a tick without a prediction appends nothing
\* but the stop-loss SELL and leaves last_tick as it was; it samples the
\* tick's MAE and runs the stop-loss check (a position at or below its armed
\* stop is sold); and when the stop-loss does not fire, balance, position,
\* entry price, the accuracy counters and the trade log are unchanged.
C27_NoPredictionNoSignalTrade ==
    [][\A w \in Workers :
        ProcessCall(w)
        => \A tick \in Ticks :
               (IsNone(tick.prediction) /\ ProcessTickStep(w, tick))
               => /\ sims'[w].last_tick = sims[w].last_tick
                  /\ sims'[w].last_mae = tick.mae_10min
                  /\ \A i \in 1..Len(NewRecords(sims[w], sims'[w])) :
                         IsStopLossSell(NewRecords(sims[w], sims'[w])[i])
                  /\ IF TickAtOrBelowStop(sims[w], tick)
                     THEN /\ SoldAt(sims[w], sims'[w], tick)
                          /\ IsStopLossSell(LastRecord(sims'[w]))
                     ELSE /\ sims'[w].balance = sims[w].balance
                          /\ sims'[w].btc = sims[w].btc
                          /\ sims'[w].buy_price = sims[w].buy_price
                          /\ sims'[w].total_predictions = sims[w].total_predictions
                          /\ sims'[w].correct_predictions = sims[w].correct_predictions
                          /\ sims'[w].trade_log = sims[w].trade_log]_vars

\* a session that is not auto-paused has sampled an MAE below the threshold
\* and has neither traded nor stored a tick: the tick carried no prediction
C27_Witness ==
    \E w \in Workers :
        /\ wpc[w] = "sleep"
        /\ ~sims[w].auto_paused
        /\ sims[w].last_mae = Some(12)
        /\ IsNone(sims[w].last_tick)
        /\ sims[w].trade_log = <<>>

\* the previous ticks a scoring can be given
ScoredTicks == {LastTick(tick) : tick \in {t \in Ticks : ~IsNone(t.prediction)}}

\* C28: scoring a previous tick against a fill price adds 1 to
\* total_predictions exactly when the tick's predicted_change_pct is not
\* zero, adds 1 to correct_predictions exactly when the prediction and the
\* price move have the same non-zero sign, and changes nothing else; a zero
\* prediction changes neither counter.
C28_ScoringCounts ==
    \A w \in Workers, last_tick \in ScoredTicks, price \in Prices :
        LET s == sims[w]
            pred == Val(last_tick.prediction)
            rose == price > last_tick.actual_price
            fell == price < last_tick.actual_price
            counted == IF pred # 0 THEN 1 ELSE 0
            right == IF (pred > 0 /\ rose) \/ (pred < 0 /\ fell) THEN 1 ELSE 0
        IN  /\ CheckPredictionAccuracy(s, last_tick, price) =
                   [s EXCEPT !.total_predictions = @ + counted,
                             !.correct_predictions = @ + right]
            /\ IsCorrect(last_tick, price) = (right = 1)

\* a BUY scored a stored tick whose prediction was zero: no counter moved
C28_Witness ==
    \E w \in Workers :
        /\ sims[w].trade_log # <<>>
        /\ LastRecord(sims[w]).type = "BUY"
        /\ LastRecord(sims[w]).prediction_accuracy = Some(FALSE)
        /\ ~IsNone(sims[w].last_tick)
        /\ Val(sims[w].last_tick).prediction = Some(0)
        /\ sims[w].total_predictions = 0

\* C29: a pause toggle writes the negation of the flag the registry holds at
\* the moment of the write (the read and the write are one atomic step), so
\* two concurrent toggles of a session never apply the same value.
C29_ToggleAtomic ==
    [][\A c \in Callers :
        (toggles[c] # None /\ toggles'[c] = None
            /\ Registered(Val(toggles[c]).interval, Val(toggles[c]).session_id))
        => simulations'[Val(toggles[c]).interval][Val(toggles[c]).session_id].paused
               = ~simulations[Val(toggles[c]).interval][Val(toggles[c]).session_id].paused]_vars

\* C30: no persisted file was written by a caller holding the manager's
\* lock.
C30_NoWriteUnderLock ==
    \A id \in DOMAIN files : ~files[id].locked

\* C31: a simulator's fields change only in a step of its own worker that
\* ends a tick call; no command of another thread writes them.
C31_OnlyWorkerMutates ==
    [][\A w \in Workers :
        sims'[w] # sims[w]
        => wpc[w] = "fetch" /\ wpc'[w] \in {"sleep", "except"}]_vars

\* the profit of the closed round trips: the sum over the SELL records
SellProfits(s) == SumProfits(s.trade_log, {"SELL"})

\* C32: get_total_profit equals the sum of the profit fields of the SELL
\* records of the trade log.
C32_TotalProfitCountsOnce ==
    \A w \in Workers : GetTotalProfit(sims[w]) = SellProfits(sims[w])

\* C33: a FLAT session's balance is its start balance plus the sum of the
\* profit fields of its SELL records.
C33_FlatBalanceIsStartPlusProfit ==
    \A w \in Workers :
        Flat(sims[w])
        => sims[w].balance = RAdd(sims[w].start_balance, SellProfits(sims[w]))

\* a session is flat again after its second round trip
C33_Witness ==
    \E w \in Workers :
        /\ Flat(sims[w])
        /\ Len(sims[w].trade_log) >= 4
        /\ LastRecord(sims[w]).type = "SELL"
        /\ sims[w].balance # sims[w].start_balance

\* C34: a tick call that executes one trade raises total_predictions by at
\* most 1 and correct_predictions by at most 1.
C34_TradeScoresOnce ==
    [][\A w \in Workers :
        (TickCall(w) /\ Len(NewRecords(sims[w], sims'[w])) = 1)
        => /\ sims'[w].total_predictions <= sims[w].total_predictions + 1
           /\ sims'[w].correct_predictions <= sims[w].correct_predictions + 1]_vars

\* C35: the trade log of a funded session alternates BUY, SELL, BUY, ...
\* starting with a BUY, and the session is LONG exactly when its last record
\* is a BUY.
C35_LogAlternates ==
    \A w \in Workers :
        LET log == sims[w].trade_log
        IN  /\ \A i \in 1..Len(log) :
                   log[i].type = IF i % 2 = 1 THEN "BUY" ELSE "SELL"
            /\ Long(sims[w]) <=> (log # <<>> /\ LastRecord(sims[w]).type = "BUY")

\* a position bought again after a SELL
C35_Witness ==
    \E w \in Workers :
        /\ Len(sims[w].trade_log) >= 3
        /\ LastRecord(sims[w]).type = "BUY"
        /\ Long(sims[w])

\* C36: an auto-paused session that holds a position has a stop-loss price
\* armed.
C36_AutoPausedLongHasStop ==
    \A w \in Workers :
        (sims[w].auto_paused /\ Long(sims[w])) => ~IsNone(sims[w].stop_loss_price)

\* C37: a registered session whose paused flag is set and that holds a
\* position has a stop-loss price armed.
C37_PausedLongHasStop ==
    \A w \in Workers :
        (/\ Registered(sims[w].interval, sims[w].session_id)
         /\ simulations[sims[w].interval][sims[w].session_id].paused
         /\ Long(sims[w]))
        => ~IsNone(sims[w].stop_loss_price)

\* C38: once stop_simulation has removed a session from the registry, no
\* field of its simulator changes and no record is appended to its log.
C38_StoppedSessionFrozen ==
    [][\A w \in Workers :
        ~Registered(sims[w].interval, sims[w].session_id)
        => sims'[w] = sims[w]]_vars

\* C39: a worker that passes its registry check drives the simulator that is
\* registered under its (interval, session_id).
C39_WorkerDrivesRegisteredSim ==
    [][\A w \in Workers :
        (wpc[w] = "check" /\ wpc'[w] = "fetch")
        => simulations[sims[w].interval][sims[w].session_id].sim = w]_vars

\* C40: the worker's stop-loss check, once it has found a stop-loss armed on
\* a position, compares the tick price with a stop_loss_price that is still
\* set, and the call returns without raising.
C40_StopLossCheckNeverFails ==
    [][\A w \in Workers :
        (wpc[w] = "monitor" /\ wpc'[w] # "monitor")
        => ~IsNone(sims[w].stop_loss_price) /\ wpc'[w] = "sleep"]_vars

====
